---- MODULE Spec2Model ----
(***************************************************************************)
(* SimpleVectorStore (backend/vector_store.py): the record dictionary, the *)
(* embedding index built from it, and the JSON snapshot on disk, driven by *)
(* add / delete_by_doc_id / search / get_all_sources calls.                *)
(*                                                                         *)
(* A call is a sequence of steps, one per statement group of the method,   *)
(* so that an exception, a process crash or another thread's call can fall *)
(* between any two of them.  The store has no lock of its own.             *)
(*   Spec      one call at a time (the handlers of main.py are coroutines  *)
(*             that never await inside a store call)                       *)
(*   ConcSpec  two threads call the methods of the one store instance      *)
(*   InputSpec one caller, who may also pass the empty string as doc_id    *)
(*   FallbackSpec  one caller, sentence_transformers not installed: every  *)
(*             vector comes from the seeded generator of _get_embedding    *)
(***************************************************************************)
EXTENDS Integers, Sequences, FiniteSets, TLC

\* ------------------------------------------------------------- bounds
\* calls in one run
MaxCalls == 2
\* records the store is let to grow to: an add is given no more texts than fit
MaxDocs == 2
\* largest top_k asked of search
MaxK == 2
\* failures in one run: an embedding call or a file operation that raises, a crash
MaxFaults == 1

Threads == {1, 2}
\* doc_id values (main.py:89 draws them from uuid4()[:8])
Groups == {"a", "b"}
\* chunk texts and queries
Texts == {"t1", "t2"}
\* metadata["source"] values (the uploaded file's name)
Sources == {"x.txt"}

VARIABLES
    documents,   \* self.documents: insertion-ordered dict, as the sequence of its values
    doc_ids,     \* self.doc_ids
    embeddings,  \* self.embeddings: [none |-> TRUE] or the matrix, row by row
    disk,        \* documents.json: [st, recs]
    pc,          \* per thread: the statement it is about to execute
    frame,       \* per thread: the locals of the call in progress
    res,         \* per thread: how its last finished call ended
    lastT,       \* the thread whose call finished last (0: none yet)
    prev,        \* the call that finished before that one
    ncalls,      \* calls so far
    nfaults,     \* failures so far
    epoch,       \* history: the records when the store was last quiescent, and the calls begun since
    deleted,     \* history: groups whose delete has returned, with no add of them begun since
    booted,      \* history: what _load found on disk at the last construction
    installed,   \* whether "from sentence_transformers import SentenceTransformer" succeeds
    rng,         \* the state of numpy's global generator (np.random)
    encoded      \* history: the (text, vector) pairs the fallback of _get_embedding has returned

vars == <<documents, doc_ids, embeddings, disk, pc, frame, res, lastT, prev,
          ncalls, nfaults, epoch, deleted, booted, installed, rng, encoded>>

\* ------------------------------------------------------------- values
\* model.encode(text): a fixed vector per text
Embed(text) ==
    CASE text = "t1" -> <<1, 0>>
      [] text = "t2" -> <<1, 1>>
      [] OTHER       -> <<0, 1>>

\* int(hashlib.md5(text.encode()).hexdigest(), 16) % (2**32): a fixed number per text
Md5Seed(text) ==
    CASE text = "t1" -> 6
      [] text = "t2" -> 11
      [] OTHER       -> 13

\* the generator: one step of its state, and the value a step yields
Step(s) == (5 * s + 3) % 16
Draw(s) == (s % 5) - 2

\* np.random.randn(384).tolist() from state s: the values drawn one after the other
\* (two of them here) and the state the generator is left in
Randn(s) ==
    LET s1 == Step(s)
        s2 == Step(s1)
    IN  [vec |-> <<Draw(s1), Draw(s2)>>, rng |-> s2]

\* FallbackVector as it would be if the generator were seeded once and not per call
FallbackVectorNoReseed(text, s) == Randn(s)

\* the fallback branch: np.random.seed(hash_val % (2**32)), then randn
FallbackVector(text, s) == Randn(Md5Seed(text))

\* _get_embedding(text) with the generator in state s: the vector, and the state of
\* the generator afterwards
GetEmbedding(text, inst, s) ==
    IF inst THEN [vec |-> Embed(text), rng |-> s] ELSE FallbackVector(text, s)

\* what np.random holds when the process starts (seeded from the operating system)
InitialRng == {0, 9}

\* f"{doc_id}_chunk_{i}": one id per (doc_id, i) pair, and no two pairs share one
ChunkId(g, i) == <<g, i>>

\* Document(id=..., doc_id=..., content=..., embedding=..., metadata={**metadata,
\* "chunk_index": i}, created_at=now); i counts from 0
Document(g, i, text, emb, src, ts) ==
    [id |-> ChunkId(g, i), doc_id |-> g, content |-> text, embedding |-> emb,
     source |-> src, chunk_index |-> i, created_at |-> ts]

\* the keys of Document
Fields == {"id", "doc_id", "content", "embedding", "metadata", "created_at"}

\* asdict(doc), as json.dump writes it: one object per record, metadata nested
AsDict(doc) ==
    [keys |-> Fields, id |-> doc.id, doc_id |-> doc.doc_id, content |-> doc.content,
     embedding |-> doc.embedding,
     metadata |-> [source |-> doc.source, chunk_index |-> doc.chunk_index],
     created_at |-> doc.created_at]

\* [asdict(doc) for doc in self.documents.values()]
AsDicts(docs) == [j \in 1..Len(docs) |-> AsDict(docs[j])]

\* Document(**doc_data): a TypeError unless the object's keys are exactly the fields
WellFormed(o) == o.keys = Fields
FromDict(o) ==
    [id |-> o.id, doc_id |-> o.doc_id, content |-> o.content, embedding |-> o.embedding,
     source |-> o.metadata.source, chunk_index |-> o.metadata.chunk_index,
     created_at |-> o.created_at]

\* list(self.documents.keys())
Keys(docs) == [j \in 1..Len(docs) |-> docs[j].id]

HasKey(docs, id) == \E j \in 1..Len(docs) : docs[j].id = id

\* self.documents[id]
Lookup(docs, id) == docs[CHOOSE j \in 1..Len(docs) : docs[j].id = id]

\* self.documents[chunk_id] = doc: a key already present keeps its place in the
\* dict's order and gets the new value; a new key goes last
PutDocument(docs, doc) ==
    IF HasKey(docs, doc.id)
    THEN [j \in 1..Len(docs) |-> IF docs[j].id = doc.id THEN doc ELSE docs[j]]
    ELSE Append(docs, doc)

\* del self.documents[k]
DelDocument(docs, k) == SelectSeq(docs, LAMBDA d : d.id # k)

\* ToDelete as it would be if the scan stopped at the first match
ToDeleteFirstOnly(docs, g) ==
    LET all == Keys(SelectSeq(docs, LAMBDA d : d.doc_id = g))
    IN  IF all = <<>> THEN <<>> ELSE <<all[1]>>

\* [k for k, v in self.documents.items() if v.doc_id == doc_id]
ToDelete(docs, g) == Keys(SelectSeq(docs, LAMBDA d : d.doc_id = g))

NoneIndex == [none |-> TRUE, rows |-> <<>>]
Matrix(rows) == [none |-> FALSE, rows |-> rows]

\* the snapshot file: absent, a complete JSON array, a zero-length file (just after
\* open(.., "w")), or a partly written / overwritten one
DiskAbsent == [st |-> "absent", recs |-> <<>>]
DiskOk(recs) == [st |-> "ok", recs |-> recs]
DiskEmpty == [st |-> "empty", recs |-> <<>>]
DiskTorn == [st |-> "torn", recs |-> <<>>]

NoFrame ==
    [op |-> "none", g |-> "", texts |-> <<>>, src |-> "", ts |-> 0, i |-> 0,
     todel |-> <<>>, data |-> <<>>, q |-> "", qv |-> <<>>, k |-> 0, sims |-> <<>>,
     top |-> <<>>, pre |-> <<>>]

NoRes == [op |-> "none", st |-> "none"]

\* ------------------------------------------------------------- search arithmetic
\* np.dot of two vectors
RECURSIVE DotUpTo(_, _, _)
DotUpTo(u, v, n) == IF n = 0 THEN 0 ELSE u[n] * v[n] + DotUpTo(u, v, n - 1)
Dot(u, v) == DotUpTo(u, v, Len(u))

\* dot(row, q) / (norm(row) * norm(q)), kept exact as the pair (dot, norm^2 * norm^2);
\* a zero norm gives 0/0, which numpy evaluates to nan
Sim(row, q) == [d |-> Dot(row, q), n2 |-> Dot(row, row) * Dot(q, q)]
IsNaN(s) == s.n2 = 0
SgnSq(x) == IF x < 0 THEN 0 - x * x ELSE x * x
SimLess(a, b) == SgnSq(a.d) * b.n2 < SgnSq(b.d) * a.n2
SimSame(a, b) == ~IsNaN(a) /\ ~IsNaN(b) /\ ~SimLess(a, b) /\ ~SimLess(b, a)
\* the order np.argsort sorts by: ascending, nan last
SortLe(a, b) == IsNaN(b) \/ (~IsNaN(a) /\ ~SimLess(b, a))

\* np.argsort(similarities): the index sequences that put the values in ascending
\* order.  The default kind is quicksort, which numpy documents as not stable, so
\* equal values may come out in any order.
RECURSIVE ArgsortOf(_, _)
ArgsortOf(sims, S) ==
    IF S = {} THEN {<<>>}
    ELSE UNION {{<<m>> \o r : r \in ArgsortOf(sims, S \ {m})} :
                m \in {x \in S : \A y \in S : SortLe(sims[x], sims[y])}}
Argsort(sims) == ArgsortOf(sims, 1..Len(sims))

Reverse(s) == [j \in 1..Len(s) |-> s[Len(s) + 1 - j]]
Take(s, k) == SubSeq(s, 1, IF k < Len(s) THEN k ELSE Len(s))

\* np.argsort(similarities)[::-1][:top_k]
TopIndices(sims, k) == {Take(Reverse(p), k) : p \in Argsort(sims)}

\* similarities, one per row of self.embeddings
Similarities(rows, qv) == [j \in 1..Len(rows) |-> Sim(rows[j], qv)]

\* one entry of search's result list; id, doc_id and embedding are carried along to
\* tell which record it is
Hit(doc, s) ==
    [content |-> doc.content, source |-> doc.source, chunk_index |-> doc.chunk_index,
     similarity |-> s, id |-> doc.id, doc_id |-> doc.doc_id, embedding |-> doc.embedding]

\* GetAllSources as it would be if a group's count were set when its entry is made
\* and never incremented
GetAllSourcesCountOnce(docs) ==
    LET firsts == SelectSeq([j \in 1..Len(docs) |-> j],
                            LAMBDA j : \A h \in 1..(j - 1) : docs[h].doc_id # docs[j].doc_id)
    IN  [n \in 1..Len(firsts) |->
            [id |-> docs[firsts[n]].doc_id, name |-> docs[firsts[n]].source, chunks |-> 1]]

\* get_all_sources: one entry per doc_id in order of first appearance, named after
\* the first record of the group, counting its records
GetAllSources(docs) ==
    LET firsts == SelectSeq([j \in 1..Len(docs) |-> j],
                            LAMBDA j : \A h \in 1..(j - 1) : docs[h].doc_id # docs[j].doc_id)
    IN  [n \in 1..Len(firsts) |->
            [id |-> docs[firsts[n]].doc_id,
             name |-> docs[firsts[n]].source,
             chunks |-> Cardinality({j \in 1..Len(docs) : docs[j].doc_id = docs[firsts[n]].doc_id})]]

\* LoadInto as it would be if each object were put in front of those read before it
RECURSIVE LoadIntoReversed(_, _)
LoadIntoReversed(docs, objs) ==
    IF objs = <<>> THEN [docs |-> docs, done |-> TRUE]
    ELSE IF ~WellFormed(Head(objs)) THEN [docs |-> docs, done |-> FALSE]
    ELSE LoadIntoReversed(<<FromDict(Head(objs))>> \o docs, Tail(objs))

\* search(query, top_k) run in one piece on a store in the given state, with the
\* query's vector qv: the result lists it may return
Search(docs, ids, emb, qv, k) ==
    IF docs = <<>> \/ emb.none THEN {<<>>}
    ELSE LET sims == Similarities(emb.rows, qv)
         IN  {[n \in 1..Len(top) |-> Hit(Lookup(docs, ids[top[n]]), sims[top[n]])] :
                 top \in TopIndices(sims, k)}

\* get_document_content's result for a group without records: None
NotFound ==
    [found |-> FALSE, doc_id |-> "", name |-> "", chunks |-> 0, full_content |-> <<>>,
     chunks_detail |-> <<>>]

\* "\n\n".join(contents): the contents with the separator between them, piece by piece
RECURSIVE Join(_)
Join(cs) ==
    IF cs = <<>> THEN <<>>
    ELSE IF Len(cs) = 1 THEN <<cs[1]>>
    ELSE <<cs[1], "\n\n">> \o Join(Tail(cs))

\* SortChunks as it would be if the chunks were left in storage order
SortChunksSkipped(chunks) == chunks

\* chunks.sort(key=lambda x: x["index"]): ascending by index, and stable, so chunks of
\* equal index stay in the order they were collected in
RECURSIVE SortChunks(_)
SortChunks(chunks) ==
    IF chunks = <<>> THEN <<>>
    ELSE LET c == chunks[Len(chunks)]
             sorted == SortChunks(SubSeq(chunks, 1, Len(chunks) - 1))
             n == Cardinality({j \in 1..Len(sorted) : sorted[j].index <= c.index})
         IN  SubSeq(sorted, 1, n) \o <<c>> \o SubSeq(sorted, n + 1, Len(sorted))

\* get_document_content(doc_id): the chunks of the group as they come in the dict,
\* metadata of the first of them, then sort, join and count
GetDocumentContent(docs, g) ==
    LET mine == SelectSeq(docs, LAMBDA d : d.doc_id = g)
        chunks == [j \in 1..Len(mine) |->
                      [index |-> mine[j].chunk_index, content |-> mine[j].content]]
        sorted == SortChunks(chunks)
    IN  IF chunks = <<>> THEN NotFound
        ELSE [found |-> TRUE, doc_id |-> g, name |-> mine[1].source, chunks |-> Len(sorted),
              full_content |-> Join([j \in 1..Len(sorted) |-> sorted[j].content]),
              chunks_detail |-> sorted]

\* _load's loop: for doc_data in data: doc = Document(**doc_data);
\* self.documents[doc.id] = doc.  An object Document() rejects ends the loop with a
\* TypeError (done is FALSE); the records put in before it stay.
RECURSIVE LoadInto(_, _)
LoadInto(docs, objs) ==
    IF objs = <<>> THEN [docs |-> docs, done |-> TRUE]
    ELSE IF ~WellFormed(Head(objs)) THEN [docs |-> docs, done |-> FALSE]
    ELSE LoadInto(PutDocument(docs, FromDict(Head(objs))), Tail(objs))

\* _rebuild_index as a whole, as _load runs it on the freshly loaded records
RebuiltIds(docs) == IF docs # <<>> THEN Keys(docs) ELSE <<>>
RebuiltEmbeddings(docs) ==
    IF docs # <<>> THEN Matrix([j \in 1..Len(docs) |-> docs[j].embedding]) ELSE NoneIndex

\* _load: no file, or a file json.load rejects: the store stays as __init__ made it,
\* empty.  Otherwise the loop runs; _rebuild_index follows it inside the same try, so
\* an exception in the loop skips it, and the except clause prints and goes on.
Loaded(d) ==
    IF d.st = "ok" THEN LoadInto(<<>>, d.recs) ELSE [docs |-> <<>>, done |-> FALSE]
Load(d) == Loaded(d).docs
LoadedIds(d) == IF Loaded(d).done THEN RebuiltIds(Load(d)) ELSE <<>>
LoadedEmbeddings(d) == IF Loaded(d).done THEN RebuiltEmbeddings(Load(d)) ELSE NoneIndex

\* What the first start of a run may find in persist_path: nothing; the snapshot an
\* earlier run saved after add("a", ["t1"], ..) and add("b", ["t1"], ..); a snapshot
\* from another producer of the same format, whose records of group "a" are not in
\* chunk_index order and one of which has a zero embedding; a snapshot whose second
\* object lacks a key.
InitialSnapshots ==
    {DiskAbsent,
     DiskOk(AsDicts(<<Document("a", 0, "t1", Embed("t1"), "x.txt", 0),
                      Document("b", 0, "t1", Embed("t1"), "x.txt", 0)>>)),
     DiskOk(AsDicts(<<Document("a", 1, "t2", <<0, 0>>, "x.txt", 0),
                      Document("a", 0, "t1", Embed("t1"), "x.txt", 0)>>)),
     DiskOk(<<AsDict(Document("a", 0, "t1", Embed("t1"), "x.txt", 0)),
              [AsDict(Document("b", 0, "t1", Embed("t1"), "x.txt", 0))
                  EXCEPT !.keys = Fields \ {"created_at"}]>>)}

\* the sequences of at most n texts
TextSeqs(n) == UNION {[1..m -> Texts] : m \in 0..n}

\* ------------------------------------------------------------- bookkeeping
Quiet == \A t \in Threads : pc[t] = "idle"

\* what a call finds when it begins
PreState == [docs |-> documents, ids |-> doc_ids, emb |-> embeddings, disk |-> disk]

\* how the call of thread t ended: st is "ret" (returned val) or "raise" (an
\* exception left the method); saved tells how its _save went
Outcome(t, st, err, val, saved) ==
    [op |-> frame[t].op, g |-> frame[t].g, texts |-> frame[t].texts, q |-> frame[t].q,
     qv |-> frame[t].qv, k |-> frame[t].k, st |-> st, err |-> err, val |-> val,
     saved |-> saved, pre |-> frame[t].pre]

\* how a call that ends in the step it begins in ended
Immediate(op, g, q, k, st, err, val) ==
    [op |-> op, g |-> g, texts |-> <<>>, q |-> q, qv |-> <<>>, k |-> k, st |-> st,
     err |-> err, val |-> val, saved |-> "none", pre |-> PreState]

\* the little that is kept of the call before the last one
Brief(r) ==
    [op |-> r.op, g |-> IF r.op = "none" THEN "" ELSE r.g, st |-> r.st,
     removed |-> r.op = "delete" /\ r.st = "ret" /\ r.val = TRUE]

\* the call of thread t ends with outcome r
Finish(t, r) ==
    /\ pc' = [pc EXCEPT ![t] = "idle"]
    /\ frame' = [frame EXCEPT ![t] = NoFrame]
    /\ res' = [res EXCEPT ![t] = r]
    /\ prev' = IF lastT = 0 THEN Brief(NoRes) ELSE Brief(res[lastT])
    /\ lastT' = t
    /\ deleted' = IF r.op = "delete" /\ r.st = "ret" THEN deleted \cup {r.g} ELSE deleted

\* thread t goes on to statement l with locals f
Goto(t, l, f) ==
    /\ pc' = [pc EXCEPT ![t] = l]
    /\ frame' = [frame EXCEPT ![t] = f]
    /\ UNCHANGED <<res, lastT, prev>>

\* one more failure, while the run may still have one
Fault == nfaults < MaxFaults /\ nfaults' = nfaults + 1

\* a mutating call c begins
Begin(c) ==
    epoch' = IF Quiet THEN [base |-> documents, calls |-> <<c>>]
             ELSE [epoch EXCEPT !.calls = Append(@, c)]
\* a reading call begins
BeginRead ==
    epoch' = IF Quiet THEN [base |-> documents, calls |-> <<>>] ELSE epoch

\* The store is constructed at process start: __init__ runs _load on whatever an
\* earlier run left in persist_path.
Start(inst) ==
    /\ installed = inst
    /\ rng \in (IF inst THEN {0} ELSE InitialRng)
    /\ encoded = {}
    /\ disk \in InitialSnapshots
    /\ documents = Load(disk)
    /\ doc_ids = LoadedIds(disk)
    /\ embeddings = LoadedEmbeddings(disk)
    /\ pc = [t \in Threads |-> "idle"]
    /\ frame = [t \in Threads |-> NoFrame]
    /\ res = [t \in Threads |-> NoRes]
    /\ lastT = 0
    /\ prev = Brief(NoRes)
    /\ ncalls = 0
    /\ nfaults = 0
    /\ epoch = [base |-> <<>>, calls |-> <<>>]
    /\ deleted = {}
    /\ booted = disk.st

\* sentence_transformers is installed; np.random is then never used and its state is
\* left out of the picture (0)
Init == Start(TRUE)

\* sentence_transformers is not installed
FallbackInit == Start(FALSE)

\* ------------------------------------------------------------- add
\* add(doc_id, texts, metadata) is called: added = 0, the loop is about to start
CallAdd(t, g, texts, src) ==
    /\ pc[t] = "idle"
    /\ ncalls < MaxCalls
    /\ Len(documents) + Len(texts) <= MaxDocs
    /\ ncalls' = ncalls + 1
    /\ Begin([t |-> t, op |-> "add", g |-> g, texts |-> texts, src |-> src, ts |-> ncalls + 1])
    /\ Goto(t, IF texts = <<>> THEN "rebuild" ELSE "add_loop",
            [NoFrame EXCEPT !.op = "add", !.g = g, !.texts = texts, !.src = src,
                            !.ts = ncalls + 1, !.pre = PreState])
    /\ deleted' = deleted \ {g}
    /\ UNCHANGED <<documents, doc_ids, embeddings, disk, nfaults, booted, installed, rng, encoded>>

\* one round of the loop: embed the text, build the Document, store it under its id
AddChunk(t) ==
    /\ pc[t] = "add_loop"
    /\ LET f == frame[t]
           text == f.texts[f.i + 1]
           e == GetEmbedding(text, installed, rng)
           doc == Document(f.g, f.i, text, e.vec, f.src, f.ts)
       IN  /\ documents' = PutDocument(documents, doc)
           /\ rng' = e.rng
           /\ encoded' = IF installed THEN encoded
                          ELSE encoded \cup {[text |-> text, vec |-> e.vec]}
           /\ Goto(t, IF f.i + 1 = Len(f.texts) THEN "rebuild" ELSE "add_loop",
                   [f EXCEPT !.i = f.i + 1])
    /\ UNCHANGED <<doc_ids, embeddings, disk, ncalls, nfaults, epoch, deleted, booted, installed>>

\* _get_embedding raises for the text at hand (model.encode fails): nothing in add
\* catches it, so the exception leaves add with the earlier rounds' records stored
AddEmbedFail(t) ==
    /\ pc[t] = "add_loop"
    /\ Fault
    /\ Finish(t, Outcome(t, "raise", "embed", 0, "none"))
    /\ UNCHANGED <<documents, doc_ids, embeddings, disk, ncalls, epoch, booted, installed, rng, encoded>>

\* ------------------------------------------------------------- _rebuild_index
\* if self.documents: self.doc_ids = list(keys) ... else: self.embeddings = None
RebuildIds(t) ==
    /\ pc[t] = "rebuild"
    /\ IF documents # <<>>
       THEN /\ doc_ids' = Keys(documents)
            /\ Goto(t, "rebuild_emb", frame[t])
            /\ UNCHANGED embeddings
       ELSE /\ embeddings' = NoneIndex
            /\ Goto(t, "rebuild_clear", frame[t])
            /\ UNCHANGED doc_ids
    /\ UNCHANGED <<documents, disk, ncalls, nfaults, epoch, deleted, booted, installed, rng, encoded>>

\* else branch, second statement: self.doc_ids = []
RebuildClear(t) ==
    /\ pc[t] = "rebuild_clear"
    /\ doc_ids' = <<>>
    /\ Goto(t, "save", frame[t])
    /\ UNCHANGED <<documents, embeddings, disk, ncalls, nfaults, epoch, deleted, booted, installed, rng, encoded>>

\* embeddings = [self.documents[doc_id].embedding for doc_id in self.doc_ids];
\* self.embeddings = np.array(embeddings).  An id no longer in the dict is a KeyError.
RebuildEmb(t) ==
    /\ pc[t] = "rebuild_emb"
    /\ IF \A j \in 1..Len(doc_ids) : HasKey(documents, doc_ids[j])
       THEN /\ embeddings' = Matrix([j \in 1..Len(doc_ids) |-> Lookup(documents, doc_ids[j]).embedding])
            /\ Goto(t, "save", frame[t])
            /\ UNCHANGED deleted
       ELSE /\ Finish(t, Outcome(t, "raise", "lookup", 0, "none"))
            /\ UNCHANGED embeddings
    /\ UNCHANGED <<documents, doc_ids, disk, ncalls, nfaults, epoch, booted, installed, rng, encoded>>

\* ------------------------------------------------------------- _save
\* SaveData as it would be if the records were those the call began with
SaveDataStale(t) ==
    /\ pc[t] = "save"
    /\ Goto(t, "save_open", [frame[t] EXCEPT !.data = AsDicts(frame[t].pre.docs)])
    /\ UNCHANGED <<documents, doc_ids, embeddings, disk, ncalls, nfaults, epoch, deleted, booted, installed, rng, encoded>>

\* data = [asdict(doc) for doc in self.documents.values()]
SaveData(t) ==
    /\ pc[t] = "save"
    /\ Goto(t, "save_open", [frame[t] EXCEPT !.data = AsDicts(documents)])
    /\ UNCHANGED <<documents, doc_ids, embeddings, disk, ncalls, nfaults, epoch, deleted, booted, installed, rng, encoded>>

\* open(data_file, "w"): the file is truncated in place
SaveOpen(t) ==
    /\ pc[t] = "save_open"
    /\ disk' = DiskEmpty
    /\ Goto(t, "save_write", frame[t])
    /\ UNCHANGED <<documents, doc_ids, embeddings, ncalls, nfaults, epoch, deleted, booted, installed, rng, encoded>>

\* open raises OSError: the file is as it was, the exception leaves add / delete
SaveOpenFail(t) ==
    /\ pc[t] = "save_open"
    /\ Fault
    /\ Finish(t, Outcome(t, "raise", "oserror", 0, "failed"))
    /\ UNCHANGED <<documents, doc_ids, embeddings, disk, ncalls, epoch, booted, installed, rng, encoded>>

\* ReturnValue as it would be if delete_by_doc_id fell off its end without "return True"
ReturnValueNone(f) == IF f.op = "add" THEN Len(f.texts) ELSE FALSE

\* what add / delete_by_doc_id return after _save: added, or True
ReturnValue(f) == IF f.op = "add" THEN Len(f.texts) ELSE TRUE

\* The file after data has been written from offset 0 by a writer that truncated it
\* some time ago.  Nothing written since: the file is data.  Another writer has
\* written since: the new bytes lie over the old ones, and whatever of the old
\* content is longer than the new stays behind it; a longer array (more records)
\* covers a shorter one, an array of as many records may or may not.
Overwritten(d, data) ==
    IF d.st = "empty" \/ (d.st = "ok" /\ (d.recs = data \/ Len(d.recs) < Len(data)))
        THEN {DiskOk(data)}
    ELSE IF d.st = "ok" /\ Len(d.recs) > Len(data) THEN {DiskTorn}
    ELSE {DiskOk(data), DiskTorn}

\* json.dump writes the whole array and the file is closed; the method returns
SaveWrite(t) ==
    /\ pc[t] = "save_write"
    /\ \E d \in Overwritten(disk, frame[t].data) : disk' = d
    /\ Finish(t, Outcome(t, "ret", "none", ReturnValue(frame[t]), "ok"))
    /\ UNCHANGED <<documents, doc_ids, embeddings, ncalls, nfaults, epoch, booted, installed, rng, encoded>>

\* SaveWriteFail as it would be if _save caught the error and went on
SaveWriteFailSwallowed(t) ==
    /\ pc[t] = "save_write"
    /\ Fault
    /\ \E d \in {DiskEmpty, DiskTorn} : disk' = d
    /\ Finish(t, Outcome(t, "ret", "none", ReturnValue(frame[t]), "failed"))
    /\ UNCHANGED <<documents, doc_ids, embeddings, ncalls, epoch, booted, installed, rng, encoded>>

\* a write or the closing flush raises OSError (disk full, I/O error): the file keeps
\* whatever had reached it, the exception leaves add / delete
SaveWriteFail(t) ==
    /\ pc[t] = "save_write"
    /\ Fault
    /\ \E d \in {DiskEmpty, DiskTorn} : disk' = d
    /\ Finish(t, Outcome(t, "raise", "oserror", 0, "failed"))
    /\ UNCHANGED <<documents, doc_ids, embeddings, ncalls, epoch, booted, installed, rng, encoded>>

\* ------------------------------------------------------------- delete_by_doc_id
\* CallDelete as it would be without the "if not to_delete: return False" test
CallDeleteNoEarlyReturn(t, g) ==
    /\ pc[t] = "idle"
    /\ ncalls < MaxCalls
    /\ ncalls' = ncalls + 1
    /\ LET todel == ToDelete(documents, g)
           f == [NoFrame EXCEPT !.op = "delete", !.g = g, !.todel = todel, !.pre = PreState]
       IN  /\ Goto(t, IF todel = <<>> THEN "rebuild" ELSE "del_loop", f)
           /\ Begin([t |-> t, op |-> "delete", g |-> g, texts |-> <<>>, src |-> "",
                     ts |-> ncalls + 1])
           /\ UNCHANGED deleted
    /\ UNCHANGED <<documents, doc_ids, embeddings, disk, nfaults, booted, installed, rng, encoded>>

\* delete_by_doc_id(doc_id) is called: to_delete is collected; an empty list returns
\* False at once, with no rebuild and no save
CallDelete(t, g) ==
    /\ pc[t] = "idle"
    /\ ncalls < MaxCalls
    /\ ncalls' = ncalls + 1
    /\ LET todel == ToDelete(documents, g)
           f == [NoFrame EXCEPT !.op = "delete", !.g = g, !.todel = todel, !.pre = PreState]
       IN  IF todel = <<>>
           THEN /\ Finish(t, Immediate("delete", g, "", 0, "ret", "none", FALSE))
                /\ BeginRead
           ELSE /\ Goto(t, "del_loop", f)
                /\ Begin([t |-> t, op |-> "delete", g |-> g, texts |-> <<>>, src |-> "",
                          ts |-> ncalls + 1])
                /\ UNCHANGED deleted
    /\ UNCHANGED <<documents, doc_ids, embeddings, disk, nfaults, booted, installed, rng, encoded>>

\* one round of: for k in to_delete: del self.documents[k]  (KeyError if k is gone)
DelKey(t) ==
    /\ pc[t] = "del_loop"
    /\ LET f == frame[t]
           k == Head(f.todel)
       IN  IF HasKey(documents, k)
           THEN /\ documents' = DelDocument(documents, k)
                /\ Goto(t, IF Tail(f.todel) = <<>> THEN "rebuild" ELSE "del_loop",
                        [f EXCEPT !.todel = Tail(f.todel)])
                /\ UNCHANGED deleted
           ELSE /\ Finish(t, Outcome(t, "raise", "lookup", 0, "none"))
                /\ UNCHANGED documents
    /\ UNCHANGED <<doc_ids, embeddings, disk, ncalls, nfaults, epoch, booted, installed, rng, encoded>>

\* ------------------------------------------------------------- search
\* search(query, top_k) is called: the empty-store test returns [] at once; otherwise
\* the query is embedded, the similarities are computed from self.embeddings and the
\* top indices are taken
CallSearch(t, q, k) ==
    /\ pc[t] = "idle"
    /\ ncalls < MaxCalls
    /\ ncalls' = ncalls + 1
    /\ BeginRead
    /\ IF documents = <<>> \/ embeddings.none
       THEN /\ Finish(t, Immediate("search", "", q, k, "ret", "none", <<>>))
            /\ UNCHANGED <<rng, encoded>>
       ELSE LET e == GetEmbedding(q, installed, rng)
                sims == Similarities(embeddings.rows, e.vec)
            IN  /\ \E top \in TopIndices(sims, k) :
                       Goto(t, "search_collect",
                            [NoFrame EXCEPT !.op = "search", !.q = q, !.qv = e.vec, !.k = k,
                                            !.sims = sims, !.top = top, !.pre = PreState])
                /\ rng' = e.rng
                /\ encoded' = IF installed THEN encoded
                               ELSE encoded \cup {[text |-> q, vec |-> e.vec]}
                /\ UNCHANGED deleted
    /\ UNCHANGED <<documents, doc_ids, embeddings, disk, nfaults, booted, installed>>

\* _get_embedding(query) raises: the exception leaves search
SearchEmbedFail(t, q, k) ==
    /\ pc[t] = "idle"
    /\ Fault
    /\ ~(documents = <<>> \/ embeddings.none)
    /\ ncalls < MaxCalls
    /\ ncalls' = ncalls + 1
    /\ BeginRead
    /\ Finish(t, Immediate("search", "", q, k, "raise", "embed", <<>>))
    /\ UNCHANGED <<documents, doc_ids, embeddings, disk, booted, installed, rng, encoded>>

\* for idx in top_indices: doc_id = self.doc_ids[idx]; doc = self.documents[doc_id]; ...
\* (IndexError if doc_ids is shorter by now, KeyError if the record is gone)
SearchCollect(t) ==
    /\ pc[t] = "search_collect"
    /\ LET f == frame[t]
       IN  IF \A n \in 1..Len(f.top) :
                  f.top[n] <= Len(doc_ids) /\ HasKey(documents, doc_ids[f.top[n]])
           THEN Finish(t, Outcome(t, "ret", "none",
                                  [n \in 1..Len(f.top) |->
                                      Hit(Lookup(documents, doc_ids[f.top[n]]), f.sims[f.top[n]])],
                                  "none"))
           ELSE Finish(t, Outcome(t, "raise", "lookup", <<>>, "none"))
    /\ UNCHANGED <<documents, doc_ids, embeddings, disk, ncalls, nfaults, epoch, booted, installed, rng, encoded>>

\* ------------------------------------------------------------- get_all_sources
ListGroups(t) ==
    /\ pc[t] = "idle"
    /\ ncalls < MaxCalls
    /\ ncalls' = ncalls + 1
    /\ BeginRead
    /\ Finish(t, Immediate("list", "", "", 0, "ret", "none", GetAllSources(documents)))
    /\ UNCHANGED <<documents, doc_ids, embeddings, disk, nfaults, booted, installed, rng, encoded>>

\* ------------------------------------------------------------- get_document_content
GetContent(t, g) ==
    /\ pc[t] = "idle"
    /\ ncalls < MaxCalls
    /\ ncalls' = ncalls + 1
    /\ BeginRead
    /\ Finish(t, Immediate("content", g, "", 0, "ret", "none", GetDocumentContent(documents, g)))
    /\ UNCHANGED <<documents, doc_ids, embeddings, disk, nfaults, booted, installed, rng, encoded>>

\* ------------------------------------------------------------- process restart
\* The process dies wherever it is and is started again: every call in progress is
\* gone, SimpleVectorStore() is constructed and runs _load.  A process killed inside
\* json.dump leaves the bytes written so far.
Restart ==
    /\ Fault
    /\ UNCHANGED ncalls
    /\ \E d \in (IF disk.st = "empty" /\ \E t \in Threads : pc[t] = "save_write"
                 THEN {DiskEmpty, DiskTorn} ELSE {disk}) :
          /\ disk' = d
          /\ booted' = d.st
          /\ documents' = Load(d)
          /\ doc_ids' = LoadedIds(d)
          /\ embeddings' = LoadedEmbeddings(d)
    /\ rng' \in (IF installed THEN {0} ELSE InitialRng)
    /\ UNCHANGED <<installed, encoded>>
    /\ pc' = [t \in Threads |-> "idle"]
    /\ frame' = [t \in Threads |-> NoFrame]
    /\ res' = [t \in Threads |-> NoRes]
    /\ lastT' = 0
    /\ prev' = Brief(NoRes)
    /\ epoch' = [base |-> <<>>, calls |-> <<>>]
    /\ deleted' = {}

\* ------------------------------------------------------------- specifications
\* the next statement of a call in progress
Continue(t) ==
    \/ AddChunk(t)
    \/ AddEmbedFail(t)
    \/ RebuildIds(t)
    \/ RebuildClear(t)
    \/ RebuildEmb(t)
    \/ SaveData(t)
    \/ SaveOpen(t)
    \/ SaveOpenFail(t)
    \/ SaveWrite(t)
    \/ SaveWriteFail(t)
    \/ DelKey(t)
    \/ SearchCollect(t)

\* a new call by thread t, its doc_id (if it has one) taken from G
Call(t, G) ==
    \/ \E g \in G, texts \in TextSeqs(MaxDocs), src \in Sources : CallAdd(t, g, texts, src)
    \/ \E g \in G : CallDelete(t, g)
    \/ \E q \in Texts, k \in 0..MaxK : CallSearch(t, q, k)
    \/ \E q \in Texts, k \in 0..MaxK : SearchEmbedFail(t, q, k)
    \/ ListGroups(t)
    \/ \E g \in G : GetContent(t, g)

\* one caller: a call begins only when the one before has ended
Next ==
    \/ Call(1, Groups)
    \/ Restart
    \/ Continue(1)

Spec == Init /\ [][Next]_vars

\* two callers, each beginning its next call whenever its last one has ended
ConcNext ==
    \/ \E t \in Threads : Call(t, Groups)
    \/ \E t \in Threads : Continue(t)

ConcSpec == Init /\ [][ConcNext]_vars

\* one caller, whose doc_id may be the empty string: nothing between the caller and
\* the store checks it
InputNext ==
    \/ Call(1, Groups \cup {""})
    \/ Continue(1)

InputSpec == Init /\ [][InputNext]_vars

\* one caller, the fallback vectors
FallbackSpec == FallbackInit /\ [][Next]_vars

\* ------------------------------------------------------------- properties
\* the call that finished last, when nothing has begun since
Finished(op) == Quiet /\ lastT # 0 /\ res[lastT].op = op
Last == res[lastT]

InGroup(docs, g) == SelectSeq(docs, LAMBDA d : d.doc_id = g)
NotInGroup(docs, g) == SelectSeq(docs, LAMBDA d : d.doc_id # g)

\* the id list is the record ids in order, the matrix has one row per record
IndexMatchesRecords ==
    /\ doc_ids = Keys(documents)
    /\ IF documents = <<>> THEN embeddings.none
       ELSE ~embeddings.none /\ Len(embeddings.rows) = Len(documents)

\* C1: after a completed add or delete, doc_ids is the sequence of record ids in the
\* same order and the matrix has as many rows as there are records (none when the
\* record set is empty).
C1_IndexFollowsRecords ==
    (Quiet /\ lastT # 0 /\ Last.op \in {"add", "delete"} /\ Last.st = "ret")
        => IndexMatchesRecords

\* C2: an add whose embedding call failed has committed nothing: records, index and
\* snapshot are as they were before the call.
C2_FailedAddCommitsNothing ==
    (Finished("add") /\ Last.st = "raise" /\ Last.err = "embed")
        => /\ documents = Last.pre.docs
           /\ doc_ids = Last.pre.ids
           /\ embeddings = Last.pre.emb
           /\ disk = Last.pre.disk

\* C3: whatever step of _save the process died at, the next start finds a complete,
\* parsable snapshot (or none at all), never an empty or partly written file.
C3_SnapshotParsableAtStartup == booted \in {"absent", "ok"}

\* C4: an add or delete whose snapshot write failed ends in an exception: it returns
\* neither a count nor True.
C4_WriteFailureSurfaces ==
    \A t \in Threads :
        (res[t].op \in {"add", "delete"} /\ res[t].saved = "failed") => res[t].st = "raise"

\* an add whose records are in memory and whose write failed has ended in an exception
C4_Witness ==
    /\ Finished("add")
    /\ Last.saved = "failed"
    /\ Last.st = "raise"
    /\ Len(documents) > Len(Last.pre.docs)

\* C5: a search interleaved with an add or a delete sees records and index from one
\* side of the mutation: it never looks up an index id that the record set lacks, and
\* the similarity it reports for a record is that of the record it returns.
C5_SearchSeesConsistentPair ==
    \A t \in Threads :
        res[t].op = "search" =>
            /\ ~(res[t].st = "raise" /\ res[t].err = "lookup")
            /\ \A n \in 1..Len(res[t].val) :
                   res[t].val[n].similarity = Sim(res[t].val[n].embedding, res[t].qv)

\* add and delete_by_doc_id run alone, from call to return
RECURSIVE AddAll(_, _, _)
AddAll(docs, c, i) ==
    IF i = Len(c.texts) THEN docs
    ELSE AddAll(PutDocument(docs, Document(c.g, i, c.texts[i + 1],
                                         GetEmbedding(c.texts[i + 1], installed, rng).vec,
                                         c.src, c.ts)), c, i + 1)
Serial(docs, c) == IF c.op = "add" THEN AddAll(docs, c, 0) ELSE NotInGroup(docs, c.g)

\* C6: two mutations issued concurrently, both completed: records, index and snapshot
\* are what running the two calls one after the other, in one order or the other,
\* leaves, and the index matches the records.
C6_WritersSerialize ==
    (/\ Quiet
     /\ Len(epoch.calls) = 2
     /\ epoch.calls[1].t # epoch.calls[2].t
     /\ \A n \in 1..2 : res[epoch.calls[n].t].op = epoch.calls[n].op
                        /\ res[epoch.calls[n].t].st = "ret")
        => LET c1 == epoch.calls[1]
               c2 == epoch.calls[2]
           IN  /\ documents \in {Serial(Serial(epoch.base, c1), c2),
                                 Serial(Serial(epoch.base, c2), c1)}
               /\ IndexMatchesRecords
               /\ disk = DiskOk(AsDicts(documents))

\* C7: a finished delete(g) has removed the records of g and no others, the rest are
\* as they were, in order; and until an add of g begins, the store, a search result
\* and a get_all_sources result hold nothing of g.
C7_DeleteIsolatesGroup ==
    /\ Finished("delete") => documents = NotInGroup(Last.pre.docs, Last.g)
    /\ \A g \in deleted :
          /\ InGroup(documents, g) = <<>>
          /\ \A n \in 1..Len(doc_ids) : doc_ids[n][1] # g
          /\ Finished("search") => \A n \in 1..Len(Last.val) : Last.val[n].doc_id # g
          /\ Finished("list") => \A n \in 1..Len(Last.val) : Last.val[n].id # g

\* a search that returns a record of another group right after a delete that removed one
C7_Witness ==
    /\ Finished("search")
    /\ Last.st = "ret"
    /\ Len(Last.val) > 0
    /\ prev.removed
    /\ prev.g \in deleted

\* C8 as written: delete returns, and returns True exactly when a record of the group
\* existed before the call.
C8_DeleteTrueIffExisted ==
    Finished("delete") =>
        /\ Last.st = "ret"
        /\ Last.val = (InGroup(Last.pre.docs, Last.g) # <<>>)

\* C8 as amended: delete of a group without records returns False and does not raise;
\* delete of a group with records returns True when the snapshot was written and
\* raises when the write failed; a delete of the group the call before it deleted
\* returns False.
C8_DeleteResult ==
    Finished("delete") =>
        LET existed == InGroup(Last.pre.docs, Last.g) # <<>>
        IN  /\ ~existed => Last.st = "ret" /\ Last.val = FALSE
            /\ existed => \/ Last.st = "ret" /\ Last.val = TRUE /\ Last.saved = "ok"
                          \/ Last.st = "raise" /\ Last.saved = "failed"
            /\ (prev.op = "delete" /\ prev.g = Last.g) => Last.st = "ret" /\ Last.val = FALSE

\* a second delete of a group returning False right after the first returned True
C8_Witness ==
    /\ Finished("delete")
    /\ Last.st = "ret"
    /\ Last.val = FALSE
    /\ prev.op = "delete"
    /\ prev.g = Last.g
    /\ prev.removed

Min(a, b) == IF a < b THEN a ELSE b

\* C9: a search whose query was embedded returns min(k, n) results for the n records
\* held, similarities non-increasing, none of the records left out more similar than
\* one returned.
C9_SearchReturnsTopK ==
    (Finished("search") /\ Last.err # "embed") =>
        /\ Last.st = "ret"
        /\ Len(Last.val) = Min(Last.k, Len(documents))
        /\ \A n \in 1..(Len(Last.val) - 1) :
               ~SimLess(Last.val[n].similarity, Last.val[n + 1].similarity)
        /\ \A n \in 1..Len(Last.val), j \in 1..Len(documents) :
               (\A m \in 1..Len(Last.val) : Last.val[m].id # documents[j].id)
                   => ~SimLess(Last.val[n].similarity, Sim(documents[j].embedding, Last.qv))

\* where the record with this id stands in the record set
Position(docs, id) == CHOOSE j \in 1..Len(docs) : docs[j].id = id

\* C10: results of equal similarity come in insertion order, the earlier record first.
C10_TiesInInsertionOrder ==
    (Finished("search") /\ Last.st = "ret") =>
        \A n \in 1..Len(Last.val), m \in 1..Len(Last.val) :
            (n < m /\ SimSame(Last.val[n].similarity, Last.val[m].similarity))
                => Position(documents, Last.val[n].id) < Position(documents, Last.val[m].id)

ZeroVec(v) == Dot(v, v) = 0

\* a similarity with the undefined value read as 0
AsZero(x) == IF IsNaN(x) THEN [d |-> 0, n2 |-> 1] ELSE x

\* C11: a search of a store that holds a record with a zero embedding returns; every
\* similarity in its result is a number, that of a zero-embedding record is 0, and the
\* results are in descending order with the zero-embedding record counted as 0.
C11_ZeroNormIsZero ==
    (/\ Finished("search")
     /\ Last.err # "embed"
     /\ ~Last.pre.emb.none
     /\ \E j \in 1..Len(Last.pre.emb.rows) : ZeroVec(Last.pre.emb.rows[j]))
        => /\ Last.st = "ret"
           /\ \A n \in 1..Len(Last.val) :
                  /\ ~IsNaN(Last.val[n].similarity)
                  /\ ZeroVec(Last.val[n].embedding) => Last.val[n].similarity.d = 0
           /\ \A n \in 1..(Len(Last.val) - 1) :
                  ~SimLess(AsZero(Last.val[n].similarity), AsZero(Last.val[n + 1].similarity))

\* C12: when the process is restarted after an add or a delete that saved a store of
\* at least one record, the new instance holds the same records in the same order,
\* the same id list and matrix, and every search has the same results as before.
C12_RoundTrip ==
    [][(/\ Quiet
        /\ lastT # 0
        /\ Last.op \in {"add", "delete"}
        /\ Last.st = "ret"
        /\ Last.saved = "ok"
        /\ documents # <<>>
        /\ lastT' = 0)
           => /\ documents' = documents
              /\ doc_ids' = doc_ids
              /\ embeddings' = embeddings
              /\ \A q \in Texts, k \in 0..MaxK :
                     Search(documents', doc_ids', embeddings',
                            GetEmbedding(q, installed', rng').vec, k)
                         = Search(documents, doc_ids, embeddings,
                                  GetEmbedding(q, installed, rng).vec, k)]_vars

\* a new instance that has loaded two records an add of the instance before it saved
C12_Witness ==
    /\ Quiet
    /\ lastT = 0
    /\ nfaults > 0
    /\ booted = "ok"
    /\ Len(documents) = 2
    /\ \A j \in 1..Len(documents) : documents[j].created_at > 0
    /\ disk = DiskOk(AsDicts(documents))
    /\ IndexMatchesRecords

\* a snapshot _load cannot take in whole
Corrupt(d) ==
    \/ d.st \in {"empty", "torn"}
    \/ d.st = "ok" /\ \E j \in 1..Len(d.recs) : ~WellFormed(d.recs[j])

\* C13: a store just constructed on a corrupt snapshot, or on none, is empty: no
\* records, no ids, no matrix.
C13_CorruptSnapshotStartsEmpty ==
    (Quiet /\ lastT = 0 /\ (Corrupt(disk) \/ disk.st = "absent"))
        => /\ documents = <<>>
           /\ doc_ids = <<>>
           /\ embeddings.none

\* C14: an add with the empty string as doc_id ends in a validation failure and
\* leaves records, index and snapshot as they were.
C14_MalformedAddRejected ==
    (Finished("add") /\ Last.g = "")
        => /\ Last.st = "raise"
           /\ Last.err = "validation"
           /\ documents = Last.pre.docs
           /\ doc_ids = Last.pre.ids
           /\ embeddings = Last.pre.emb
           /\ disk = Last.pre.disk

\* the call that finished last had a text to embed
Embedded ==
    \/ Last.op = "add" /\ Last.texts # <<>>
    \/ Last.op = "search" /\ Last.pre.docs # <<>> /\ ~Last.pre.emb.none

\* C15: without the model (the constructor has no parameter that selects the
\* fallback) an add with texts and a search of an indexed store end in a failure, and
\* no fallback vector is ever produced.
C15_NoSilentFallback ==
    ~installed =>
        /\ encoded = {}
        /\ (Quiet /\ lastT # 0 /\ Embedded) => Last.st = "raise" /\ Last.err \in {"provider", "embed"}

\* C16: get_document_content of a group with records returns them all, each once, in
\* ascending chunk_index order, with their count and with their contents joined in
\* that order by the separator; of a group without records it returns None.
C16_ContentInChunkOrder ==
    Finished("content") =>
        LET v == Last.val
            mine == InGroup(documents, Last.g)
            cs == v.chunks_detail
        IN  /\ Last.st = "ret"
            /\ IF mine = <<>> THEN v = NotFound
               ELSE /\ v.found
                    /\ v.doc_id = Last.g
                    /\ v.chunks = Len(mine)
                    /\ Len(cs) = Len(mine)
                    /\ \A j \in 1..Len(mine) :
                           Cardinality({n \in 1..Len(cs) :
                                           /\ cs[n].index = mine[j].chunk_index
                                           /\ cs[n].content = mine[j].content}) = 1
                    /\ \A n \in 1..(Len(cs) - 1) : cs[n].index < cs[n + 1].index
                    /\ Len(v.full_content) = 2 * Len(cs) - 1
                    /\ \A n \in 1..Len(cs) : v.full_content[2 * n - 1] = cs[n].content
                    /\ \A n \in 1..(Len(cs) - 1) : v.full_content[2 * n] = "\n\n"

\* the content of a group of two records that are stored in descending chunk_index order
C16_Witness ==
    /\ Finished("content")
    /\ Last.val.found
    /\ Last.val.chunks = 2
    /\ InGroup(documents, Last.g)[1].chunk_index > InGroup(documents, Last.g)[2].chunk_index

\* C17: get_all_sources returns one entry per doc_id that has a record and none for
\* any other; an entry's count is the number of records of its group and its name is
\* the source of one of them.
C17_ListGroupsMatchesRecords ==
    Finished("list") =>
        LET v == Last.val
        IN  /\ \A n \in 1..Len(v), m \in 1..Len(v) : v[n].id = v[m].id => n = m
            /\ {v[n].id : n \in 1..Len(v)} = {documents[j].doc_id : j \in 1..Len(documents)}
            /\ \A n \in 1..Len(v) :
                   /\ v[n].chunks = Len(InGroup(documents, v[n].id))
                   /\ \E j \in 1..Len(documents) :
                          documents[j].doc_id = v[n].id /\ documents[j].source = v[n].name

\* the list taken right after an add of two chunks
C17_Witness ==
    /\ Finished("list")
    /\ prev.op = "add"
    /\ prev.st = "ret"
    /\ \E n \in 1..Len(Last.val) : Last.val[n].chunks = 2 /\ Last.val[n].id = prev.g

\* C18: every record the store held when a call began is held unchanged when the call
\* has ended, unless the call was a delete of the record's group.
C18_RecordsImmutable ==
    (Quiet /\ lastT # 0) =>
        \A j \in 1..Len(Last.pre.docs) :
            LET d == Last.pre.docs[j]
            IN  \/ Last.op = "delete" /\ d.doc_id = Last.g
                \/ HasKey(documents, d.id) /\ Lookup(documents, d.id) = d

\* the snapshot is what saving these records leaves; no file stands for no records
SnapshotOf(docs) ==
    \/ disk = DiskOk(AsDicts(docs))
    \/ disk.st = "absent" /\ docs = <<>>

\* C19 as written: after an add or a delete that returned, with whatever value, the
\* snapshot is the serialization of the records in memory.
C19_SnapshotMatchesMemory ==
    (Quiet /\ lastT # 0 /\ Last.op \in {"add", "delete"} /\ Last.st = "ret")
        => SnapshotOf(documents)

\* C19 as amended: after an add that returned, or a delete that returned True, the
\* snapshot is the serialization of the records in memory and loads back to them; a
\* delete that returned False has left the snapshot as it found it.
C19_SnapshotAfterWrite ==
    (Quiet /\ lastT # 0 /\ Last.op \in {"add", "delete"} /\ Last.st = "ret")
        => IF Last.op = "add" \/ Last.val
           THEN /\ disk = DiskOk(AsDicts(documents))
                /\ Load(disk) = documents
           ELSE disk = Last.pre.disk

\* a delete that removed one group and left a record of another, now on disk alone
C19_Witness ==
    /\ Finished("delete")
    /\ Last.st = "ret"
    /\ Last.val
    /\ documents # <<>>
    /\ Len(Last.pre.docs) > Len(documents)
    /\ disk = DiskOk(AsDicts(documents))

\* C20: the fallback has returned one vector per text, whatever it encoded before or
\* between.
C20_FallbackDependsOnTextOnly ==
    \A p1 \in encoded, p2 \in encoded : p1.text = p2.text => p1.vec = p2.vec

\* a search whose query is the first of two different texts an add has just stored:
\* the text was encoded, then the other one, then the text again, to the same vector
C20_Witness ==
    /\ ~installed
    /\ Finished("search")
    /\ prev.op = "add"
    /\ prev.st = "ret"
    /\ Len(documents) = 2
    /\ documents[1].created_at > 0
    /\ documents[2].created_at = documents[1].created_at
    /\ documents[1].content = Last.q
    /\ documents[2].content # Last.q
    /\ documents[1].embedding = Last.qv

\* C21: a delete of a group without records has left the records, the id list, the
\* matrix and the snapshot file as it found them, and has not gone through _save.
C21_AbsentDeleteIsNoOp ==
    (Finished("delete") /\ InGroup(Last.pre.docs, Last.g) = <<>>)
        => /\ documents = Last.pre.docs
           /\ doc_ids = Last.pre.ids
           /\ embeddings = Last.pre.emb
           /\ disk = Last.pre.disk
           /\ Last.saved = "none"

\* a delete of an absent group on a store whose id list a rebuild would have changed
\* and whose snapshot a save would have rewritten
C21_Witness ==
    /\ Finished("delete")
    /\ Last.st = "ret"
    /\ Last.val = FALSE
    /\ documents # <<>>
    /\ doc_ids # Keys(documents)
    /\ disk # DiskOk(AsDicts(documents))

====
